---- MODULE Spec2Model ----
(***************************************************************************)
(* tlsign: a detached ES512 JWS over a request body (src/src/main.rs).     *)
(*                                                                         *)
(* Bytes are integers 0..255 and strings are sequences of ASCII codes, so  *)
(* that base64url encoding, JSON serialization of the header and the      *)
(* fixed-width padding of the signature are computed, not assumed.        *)
(* Big integers (r, s) exceed TLC's integers: a magnitude is the minimal  *)
(* big-endian byte sequence BigNum::to_vec returns (no leading zero byte, *)
(* the empty sequence for zero).                                          *)
(***************************************************************************)
EXTENDS Integers, Sequences, FiniteSets, TLC

\* ------------------------------------------------------------ bounds
\* Longest request body of the full pipeline, in bytes.
MaxBodyLen == 3
\* Longest input handed to base64_encode on its own, in bytes.
MaxB64Len == 3
\* Longest magnitude the ECDSA primitive is allowed to return, in bytes
\* (one more than the width the code pads to, so the oversized case exists).
MaxScalarLen == 67

\* ------------------------------------------------------------ program constants
\* The fixed width of r and of s: main.rs:107 and main.rs:110.
ScalarWidth == 66

\* ASCII codes used by the code's string literals.
Dot == 46

\* ------------------------------------------------------------ helpers
\* n copies of byte b: std::iter::repeat(b).take(n).
Repeat(b, n) == [i \in 1..n |-> b]

\* ------------------------------------------------------------ base64_encode
\* A mutant of UrlSafeChar: the STANDARD alphabet, '+' and '/' for 62 and 63.
StandardChar(i) ==
  IF i < 26 THEN 65 + i
  ELSE IF i < 52 THEN 97 + (i - 26)
  ELSE IF i < 62 THEN 48 + (i - 52)
  ELSE IF i = 62 THEN 43 ELSE 47

\* The URL_SAFE alphabet of the base64 crate: A-Z a-z 0-9 - _
UrlSafeChar(i) ==
  IF i < 26 THEN 65 + i
  ELSE IF i < 52 THEN 97 + (i - 26)
  ELSE IF i < 62 THEN 48 + (i - 52)
  ELSE IF i = 62 THEN 45 ELSE 95

\* The six-bit group at position pos (0..3) of the 24-bit group b0 b1 b2.
Sextet(b0, b1, b2, pos) ==
  CASE pos = 0 -> b0 \div 4
    [] pos = 1 -> (b0 % 4) * 16 + (b1 \div 16)
    [] pos = 2 -> (b1 % 16) * 4 + (b2 \div 64)
    [] OTHER   -> b2 % 64

\* Number of characters of the unpadded encoding of n bytes: four per full
\* three-byte group, two or three for a trailing group of one or two bytes.
EncodedLen(n) == 4 * (n \div 3) + (IF n % 3 = 0 THEN 0 ELSE (n % 3) + 1)

\* pub fn base64_encode(payload: &[u8]) -> String
\* base64::encode_config(payload, URL_SAFE_NO_PAD): every three bytes give
\* four characters, a trailing group of one or two bytes gives two or three
\* (its missing bits are zero), and no '=' is appended.
base64_encode(payload) ==
  LET n == Len(payload)
      At(k) == IF k <= n THEN payload[k] ELSE 0
      Out(j) == \* j is the 0-based output position
        LET c == j \div 4
        IN UrlSafeChar(Sextet(At(3 * c + 1), At(3 * c + 2), At(3 * c + 3), j % 4))
  IN [i \in 1..EncodedLen(n) |-> Out(i - 1)]

\* ------------------------------------------------------------ header
\* One lowercase hexadecimal digit.
HexDigit(n) == IF n < 10 THEN 48 + n ELSE 87 + n

\* Uuid::to_string: 16 bytes as lowercase hex, hyphens after bytes 4, 6, 8, 10.
UuidToString(u) ==
  LET Hex(k) == <<HexDigit(u[k] \div 16), HexDigit(u[k] % 16)>>
      Group(a, b) == [i \in 1..(2 * (b - a + 1)) |-> Hex(a + ((i - 1) \div 2))[((i - 1) % 2) + 1]]
  IN Group(1, 4) \o <<45>> \o Group(5, 6) \o <<45>> \o Group(7, 8) \o <<45>>
     \o Group(9, 10) \o <<45>> \o Group(11, 16)

\* "ES512"
ES512 == <<69, 83, 53, 49, 50>>

\* json!({"alg": "ES512", "kid": options.kid.to_string()})
JwsHeader(k) == [alg |-> ES512, kid |-> UuidToString(k)]

\* A JSON string literal of characters that need no escaping.
JsonString(s) == <<34>> \o s \o <<34>>

\* A mutant of to_string: the members in the other order.
to_string_kid_first(v) ==
  <<123>> \o JsonString(<<107, 105, 100>>) \o <<58>> \o JsonString(v.kid)
  \o <<44>> \o JsonString(<<97, 108, 103>>) \o <<58>> \o JsonString(v.alg) \o <<125>>

\* serde_json::to_string(&jws_header): {"alg":"ES512","kid":"<kid>"}, the
\* members in key order, no whitespace.
to_string(v) ==
  <<123>> \o JsonString(<<97, 108, 103>>) \o <<58>> \o JsonString(v.alg)
  \o <<44>> \o JsonString(<<107, 105, 100>>) \o <<58>> \o JsonString(v.kid) \o <<125>>

\* ------------------------------------------------------------ detached form
\* str::split on a one-character pattern: the pieces between separators
\* (one piece more than there are separators; empty pieces are kept).
Split(s, sep) ==
  LET seps == {i \in DOMAIN s : s[i] = sep}
      n == Cardinality(seps)
      \* the position of the k-th separator; 0 and Len(s) + 1 close the ends
      Cut(k) == IF k = 0 THEN 0
                ELSE IF k = n + 1 THEN Len(s) + 1
                ELSE CHOOSE p \in seps : Cardinality({q \in seps : q <= p}) = k
  IN [k \in 1..(n + 1) |-> SubSeq(s, Cut(k - 1) + 1, Cut(k) - 1)]

\* A mutant of Detached: the payload segment is kept.
DetachedKeepsPayload(parts) == parts[1] \o <<Dot>> \o parts[2] \o <<Dot>> \o parts[3]

\* format!("{}..{}", parts[0], parts[2])
Detached(parts) == parts[1] \o <<Dot, Dot>> \o parts[3]

\* ------------------------------------------------------------ signature layout
\* A mutant of PadLeft: the zero bytes after the magnitude.
PadRight(m) == m \o Repeat(0, ScalarWidth - Len(m))

\* A mutant of PadLeft: one byte too narrow.
PadLeftNarrow(m) == Repeat(0, (ScalarWidth - 1) - Len(m)) \o m

\* extend(repeat(0x00).take(66 - m.len())); extend(m), for m.len() <= 66.
PadLeft(m) == Repeat(0, ScalarWidth - Len(m)) \o m

\* signature_bytes after lines 105-111.
SignatureBytes(r, s) == PadLeft(r) \o PadLeft(s)

\* Whether 66 - m.len() is computable in usize.
FitsWidth(m) == Len(m) <= ScalarWidth

\* ------------------------------------------------------------ inputs
Curves == {"P521", "P256", "P384"}

\* A mutant of IsES512Curve: any curve of at least 384 bits is accepted.
IsLargeCurve(c) == c \in {"P521", "P384"}

\* pkey.group().curve_name() == Some(Nid::SECP521R1)
IsES512Curve(c) == c = "P521"

\* What the file named by --key may hold.
KeyFiles ==
  {[kind |-> k, curve |-> "none"] : k \in {"unreadable", "not_pem", "not_ec"}}
  \cup {[kind |-> k, curve |-> c] : k \in {"inconsistent", "valid"}, c \in Curves}

NoKey == [curve |-> "none"]

SeqsUpTo(S, n) == UNION {[1..k -> S] : k \in 0..n}

\* --kid values: 11111111-1111-1111-1111-111111111111 and abababab-...
Kids == {[i \in 1..16 |-> b] : b \in {17, 171}}

\* --body values (a String, so ASCII here): over 'h' and '?'.
Bodies == SeqsUpTo({104, 63}, MaxBodyLen)

\* Inputs of base64_encode called on its own; 251 and 255 reach the last
\* two characters of the alphabet.
B64Inputs == SeqsUpTo({0, 62, 104, 251, 255}, MaxB64Len)

\* Inputs of sign_es512 called on its own.
SignPayloads == {<<>>, <<104, 46, 105>>}

\* BigNum::to_vec: the minimal big-endian magnitude of n bytes whose first
\* byte is hi; the bytes after it alternate 0x00 and 0xAB.
Magnitude(n, hi) == [i \in 1..n |-> IF i = 1 THEN hi ELSE IF i % 2 = 0 THEN 0 ELSE 171]

Magnitudes(lens) == {Magnitude(n, hi) : n \in lens, hi \in {1, 255}}

AllLens == 0..MaxScalarLen

\* The lengths at the edges of the fixed width: 0, 1, 65, 66 and above.
BoundaryLens == {n \in AllLens : n <= 1 \/ n >= ScalarWidth - 1}

NoHash == [alg |-> "none", msg |-> <<>>]
NoSig == [r |-> <<>>, s |-> <<>>, digest |-> NoHash, key |-> NoKey]
NoHeader == [alg |-> <<>>, kid |-> <<>>]

\* The rust build profiles: overflow checks on (debug) or off (release).
Profiles == {"debug", "release"}

\* ------------------------------------------------------------ state
VARIABLES
  pc,                   \* the next step of the run
  caller,               \* who called sign_es512 / base64_encode
  kid, body, keyfile,   \* the command line: --kid, --body, --key (the file's content)
  private_key,          \* the EcKey being loaded, then used
  jws_header,           \* main's jws_header
  to_be_signed,         \* get_jws's to_be_signed
  payload,              \* the argument of sign_es512 / base64_encode
  hash,                 \* sign_es512's hash
  structured_signature, \* sign_es512's structured_signature
  signature_bytes,      \* sign_es512's signature_bytes
  signature,            \* the string sign_es512 returns
  encoded,              \* the string base64_encode returns (called on its own)
  jws,                  \* the string get_jws returns
  stdout,               \* the lines printed
  result,               \* "running", "ok", an error, or a panic
  log                   \* the library calls made so far, in order

vars == <<pc, caller, kid, body, keyfile, private_key, jws_header, to_be_signed,
          payload, hash, structured_signature, signature_bytes, signature,
          encoded, jws, stdout, result, log>>

inputs == <<kid, body, keyfile>>
locals == <<private_key, jws_header, to_be_signed, payload, hash,
            structured_signature, signature_bytes, signature, encoded, jws, stdout>>

Blank ==
  /\ jws_header = NoHeader
  /\ to_be_signed = <<>>
  /\ hash = NoHash
  /\ structured_signature = NoSig
  /\ signature_bytes = <<>>
  /\ signature = <<>>
  /\ encoded = <<>>
  /\ jws = <<>>
  /\ stdout = <<>>
  /\ result = "running"
  /\ log = <<>>

\* The command line as parsed: main is about to run.
Init ==
  /\ pc = "main"
  /\ caller = "main"
  /\ kid \in Kids
  /\ body \in Bodies
  /\ keyfile \in KeyFiles
  /\ private_key = NoKey
  /\ payload = <<>>
  /\ Blank

\* A step that succeeded / the step that failed, recorded in order.
Did(op) == log' = Append(log, [op |-> op, ok |-> TRUE])

\* A mutant of Fail: the error is recorded and the run goes on.
FailAndGoOn(op, err) ==
  /\ log' = Append(log, [op |-> op, ok |-> FALSE])
  /\ result' = err
  /\ pc' = IF pc = "hash" THEN "sign" ELSE "done"

\* The ? operator (or a panic): the error leaves main, nothing else runs.
Fail(op, err) ==
  /\ log' = Append(log, [op |-> op, ok |-> FALSE])
  /\ result' = err
  /\ pc' = "done"

\* ------------------------------------------------------------ main, private_key
\* main, lines 47-52: the header is built from the parsed options.
MainStart ==
  /\ pc = "main"
  /\ jws_header' = JwsHeader(kid)
  /\ pc' = "read_key"
  /\ UNCHANGED <<caller, inputs, private_key, to_be_signed, payload, hash,
                 structured_signature, signature_bytes, signature, encoded,
                 jws, stdout, result, log>>

\* private_key, lines 28-29: std::fs::read(&self.key)
ReadKeyFile ==
  /\ pc = "read_key"
  /\ \/ /\ keyfile.kind = "unreadable"
        /\ Fail("read", "ReadKeyFile")
     \/ /\ keyfile.kind # "unreadable"
        /\ Did("read")
        /\ pc' = "parse_pem"
        /\ UNCHANGED result
  /\ UNCHANGED <<caller, inputs, locals>>

\* private_key, lines 30-31: PKey::private_key_from_pem
ParsePem ==
  /\ pc = "parse_pem"
  /\ \/ /\ keyfile.kind = "not_pem"
        /\ Fail("private_key_from_pem", "KeyFormatError")
     \/ /\ keyfile.kind # "not_pem"
        /\ Did("private_key_from_pem")
        /\ pc' = "ec_key"
        /\ UNCHANGED result
  /\ UNCHANGED <<caller, inputs, locals>>

\* private_key, lines 32-33: .ec_key()
EcKeyOf ==
  /\ pc = "ec_key"
  /\ \/ /\ keyfile.kind = "not_ec"
        /\ Fail("ec_key", "NotEllipticCurveKey")
        /\ UNCHANGED private_key
     \/ /\ keyfile.kind # "not_ec"
        /\ Did("ec_key")
        /\ private_key' = [curve |-> keyfile.curve]
        /\ pc' = "check_key"
        /\ UNCHANGED result
  /\ UNCHANGED <<caller, inputs, jws_header, to_be_signed, payload, hash,
                 structured_signature, signature_bytes, signature, encoded,
                 jws, stdout>>

\* A mutant of CheckKeyOk: the check is not made.
CheckKeySkipped(kf) == TRUE

\* EcKey::check_key on the key the file holds.
CheckKeyOk(kf) == kf.kind # "inconsistent"

\* private_key, lines 34-35: private_key.check_key()
CheckKey ==
  /\ pc = "check_key"
  /\ \/ /\ ~CheckKeyOk(keyfile)
        /\ Fail("check_key", "KeyVerificationError")
     \/ /\ CheckKeyOk(keyfile)
        /\ Did("check_key")
        /\ pc' = "get_jws"
        /\ UNCHANGED result
  /\ UNCHANGED <<caller, inputs, locals>>

\* ------------------------------------------------------------ get_jws
\* lines 75-79: format!("{}.{}", b64(to_string(header)), b64(payload))
SigningInput(header, jws_payload) ==
  base64_encode(to_string(header)) \o <<Dot>> \o base64_encode(jws_payload)

\* A mutant of Compact: the header of the result is serialized differently
\* from the one that was signed.
CompactOtherHeader(header, jws_payload, sig) ==
  base64_encode(to_string_kid_first(header)) \o <<Dot>> \o base64_encode(jws_payload)
  \o <<Dot>> \o sig

\* lines 82-87: format!("{}.{}.{}", b64(to_string(header)), b64(payload), signature)
Compact(header, jws_payload, sig) ==
  base64_encode(to_string(header)) \o <<Dot>> \o base64_encode(jws_payload)
  \o <<Dot>> \o sig

\* get_jws, lines 75-80: the signing input is built and sign_es512 is called.
\* serde_json::to_string returns a Result: either outcome is taken.
GetJwsSigningInput ==
  /\ pc = "get_jws"
  /\ \/ /\ Fail("to_string", "SerializationError")
        /\ UNCHANGED <<caller, to_be_signed, payload>>
     \/ /\ Did("to_string")
        /\ to_be_signed' = SigningInput(jws_header, body)
        /\ payload' = to_be_signed'
        /\ caller' = "get_jws"
        /\ pc' = "sign_es512"
        /\ UNCHANGED result
  /\ UNCHANGED <<inputs, private_key, jws_header, hash, structured_signature,
                 signature_bytes, signature, encoded, jws, stdout>>

\* get_jws, lines 82-88: the header is serialized again and the compact
\* JWS is composed.
GetJwsCompose ==
  /\ pc = "compose"
  /\ \/ /\ Fail("to_string", "SerializationError")
        /\ UNCHANGED jws
     \/ /\ Did("to_string")
        /\ jws' = Compact(jws_header, body, signature)
        /\ pc' = "print"
        /\ UNCHANGED result
  /\ UNCHANGED <<caller, inputs, private_key, jws_header, to_be_signed, payload,
                 hash, structured_signature, signature_bytes, signature,
                 encoded, stdout>>

\* main, lines 59-64: split, drop the payload segment, print. parts[2] is
\* an index: out of bounds panics.
MainPrint ==
  /\ pc = "print"
  /\ LET parts == Split(jws, Dot) IN
       \/ /\ Len(parts) < 3
          /\ Fail("index", "PanicIndexOutOfBounds")
          /\ UNCHANGED stdout
       \/ /\ Len(parts) >= 3
          /\ stdout' = Append(stdout, Detached(parts))
          /\ Did("println")
          /\ result' = "ok"
          /\ pc' = "done"
  /\ UNCHANGED <<caller, inputs, private_key, jws_header, to_be_signed, payload,
                 hash, structured_signature, signature_bytes, signature,
                 encoded, jws>>

\* ------------------------------------------------------------ sign_es512
\* sign_es512, lines 95-99: the curve check.
SignCurveCheck ==
  /\ pc = "sign_es512"
  /\ \/ /\ ~IsES512Curve(private_key.curve)
        /\ Fail("curve_check", "CurveMismatch")
     \/ /\ IsES512Curve(private_key.curve)
        /\ Did("curve_check")
        /\ pc' = "hash"
        /\ UNCHANGED result
  /\ UNCHANGED <<caller, inputs, locals>>

\* A mutant of Digest: SHA-256.
DigestSha256(msg) == [alg |-> "SHA256", msg |-> msg]

\* openssl::hash::hash(MessageDigest::sha512(), &payload): the digest is
\* kept symbolic, as the algorithm and the message it was computed over.
Digest(msg) == [alg |-> "SHA512", msg |-> msg]

\* sign_es512, line 100. The call returns a Result: either outcome is taken.
SignHash ==
  /\ pc = "hash"
  /\ \/ /\ Fail("hash", "HashError")
        /\ UNCHANGED hash
     \/ /\ Did("hash")
        /\ hash' = Digest(payload)
        /\ pc' = "sign"
        /\ UNCHANGED result
  /\ UNCHANGED <<caller, inputs, private_key, jws_header, to_be_signed, payload,
                 structured_signature, signature_bytes, signature, encoded,
                 jws, stdout>>

\* sign_es512, line 101: EcdsaSig::sign(&hash, &pkey). The primitive returns
\* an error or a pair (r, s) for that digest and that key; which pair is its
\* choice (the nonce), here among magnitudes of the given lengths.
SignEcdsa(lens) ==
  /\ pc = "sign"
  /\ \/ /\ Fail("sign", "SignError")
        /\ UNCHANGED structured_signature
     \/ /\ Did("sign")
        /\ \E r \in Magnitudes(lens), s \in Magnitudes(lens) :
             structured_signature' = [r |-> r, s |-> s, digest |-> hash, key |-> private_key]
        /\ pc' = "serialize"
        /\ UNCHANGED result
  /\ UNCHANGED <<caller, inputs, private_key, jws_header, to_be_signed, payload,
                 hash, signature_bytes, signature, encoded, jws, stdout>>

\* sign_es512, lines 103-113: r and s are padded to 66 bytes each and the
\* 132 bytes are encoded. 66 - len is a usize subtraction: for len > 66 it
\* panics where overflow is checked (debug), and where it is not (release)
\* it wraps to nearly 2^64, and reserving that many bytes panics.
SignSerialize ==
  /\ pc = "serialize"
  /\ LET r == structured_signature.r
         s == structured_signature.s
     IN \/ /\ ~(FitsWidth(r) /\ FitsWidth(s))
           /\ \E profile \in Profiles :
                Fail("pad", IF profile = "debug" THEN "PanicSubtractOverflow"
                                                 ELSE "PanicCapacityOverflow")
           /\ UNCHANGED <<signature_bytes, signature>>
        \/ /\ FitsWidth(r) /\ FitsWidth(s)
           /\ signature_bytes' = SignatureBytes(r, s)
           /\ signature' = base64_encode(signature_bytes')
           /\ Did("pad")
           /\ IF caller = "get_jws"
                THEN pc' = "compose" /\ UNCHANGED result
                ELSE pc' = "done" /\ result' = "ok"
  /\ UNCHANGED <<caller, inputs, private_key, jws_header, to_be_signed, payload,
                 hash, structured_signature, encoded, jws, stdout>>

\* ------------------------------------------------------------ base64_encode
\* base64_encode called on its own.
Base64Encode ==
  /\ pc = "base64_encode"
  /\ encoded' = base64_encode(payload)
  /\ Did("base64_encode")
  /\ result' = "ok"
  /\ pc' = "done"
  /\ UNCHANGED <<caller, inputs, private_key, jws_header, to_be_signed, payload,
                 hash, structured_signature, signature_bytes, signature, jws,
                 stdout>>

\* ------------------------------------------------------------ specifications
\* The program: main, from the parsed command line to the exit.
Next ==
  \/ MainStart
  \/ ReadKeyFile
  \/ ParsePem
  \/ EcKeyOf
  \/ CheckKey
  \/ GetJwsSigningInput
  \/ SignCurveCheck
  \/ SignHash
  \/ SignEcdsa(BoundaryLens)
  \/ SignSerialize
  \/ GetJwsCompose
  \/ MainPrint

Spec == Init /\ [][Next]_vars

\* sign_es512 called on its own, with any payload and any EC key.
InitSign ==
  /\ pc = "sign_es512"
  /\ caller = "direct"
  /\ kid = [i \in 1..16 |-> 17]
  /\ body = <<>>
  /\ keyfile = [kind |-> "valid", curve |-> "P521"]
  /\ payload \in SignPayloads
  /\ private_key \in {[curve |-> c] : c \in Curves}
  /\ Blank

NextSign ==
  \/ SignCurveCheck
  \/ SignHash
  \/ SignEcdsa(AllLens)
  \/ SignSerialize

SpecSign == InitSign /\ [][NextSign]_vars

\* base64_encode called on its own, with any bytes.
InitB64 ==
  /\ pc = "base64_encode"
  /\ caller = "direct"
  /\ kid = [i \in 1..16 |-> 17]
  /\ body = <<>>
  /\ keyfile = [kind |-> "valid", curve |-> "P521"]
  /\ payload \in B64Inputs
  /\ private_key = NoKey
  /\ Blank

NextB64 == Base64Encode

SpecB64 == InitB64 /\ [][NextB64]_vars

\* ------------------------------------------------------------ vocabulary of the properties
\* The base64url alphabet: A-Z a-z 0-9 '-' '_'.
Base64UrlChars == (65..90) \cup (97..122) \cup (48..57) \cup {45, 95}

IsBase64Url(s) == \A i \in DOMAIN s : s[i] \in Base64UrlChars

\* The library calls made so far, by name.
Ops == [i \in DOMAIN log |-> log[i].op]

Succeeded(op) == \E i \in DOMAIN log : log[i] = [op |-> op, ok |-> TRUE]

Attempted(op) == \E i \in DOMAIN log : log[i].op = op

\* sign_es512 returned Ok(..).
SignReturned == Succeeded("pad")

\* The unsigned big-endian value of a byte string, as its minimal magnitude
\* (leading zero bytes do not change the value).
Unsigned(b) ==
  LET nz == {i \in DOMAIN b : b[i] # 0}
  IN IF nz = {} THEN <<>>
     ELSE SubSeq(b, CHOOSE i \in nz : \A j \in nz : i <= j, Len(b))

\* The six-bit value of a base64url character, -1 for any other character.
Base64UrlValue(c) ==
  IF c \in 65..90 THEN c - 65
  ELSE IF c \in 97..122 THEN c - 71
  ELSE IF c \in 48..57 THEN c + 4
  ELSE IF c = 45 THEN 62
  ELSE IF c = 95 THEN 63 ELSE -1

Base64UrlDecodable(s) ==
  /\ \A i \in DOMAIN s : Base64UrlValue(s[i]) >= 0
  /\ Len(s) % 4 # 1

\* RFC 7515 base64url decoding (no padding) of a decodable string.
Base64UrlDecode(s) ==
  LET V(k) == IF k <= Len(s) THEN Base64UrlValue(s[k]) ELSE 0
      Byte(k) == \* k is the 0-based byte position
        LET g == 4 * (k \div 3)
        IN CASE k % 3 = 0 -> V(g + 1) * 4 + (V(g + 2) \div 16)
             [] k % 3 = 1 -> (V(g + 2) % 16) * 16 + (V(g + 3) \div 4)
             [] OTHER     -> (V(g + 3) % 4) * 64 + V(g + 4)
  IN [i \in 1..((3 * Len(s)) \div 4) |-> Byte(i - 1)]

\* Standard ES512 verification of a JWS signature segment, with the ECDSA
\* arithmetic replaced by the primitive's contract: over P-521, the pair
\* (r, s) read from the two 66-byte halves is accepted for a message when
\* both are non-zero and it is the pair the signing primitive issued for the
\* SHA-512 digest of that message under that key.
ES512Verify(key, msg, segment) ==
  /\ Base64UrlDecodable(segment)
  /\ LET sig == Base64UrlDecode(segment)
     IN /\ Len(sig) = 132
        /\ key.curve = "P521"
        /\ LET r == Unsigned(SubSeq(sig, 1, 66))
               s == Unsigned(SubSeq(sig, 67, 132))
           IN /\ r # <<>>
              /\ s # <<>>
              /\ structured_signature =
                   [r |-> r, s |-> s, digest |-> [alg |-> "SHA512", msg |-> msg],
                    key |-> key]

\* ------------------------------------------------------------ properties
\* C1: whenever sign_es512 returns successfully, the byte string it encodes
\* is exactly 132 bytes long, and it does return successfully whenever the
\* ECDSA primitive returned magnitudes of 0..66 bytes (any payload).
C1_SignatureIs132Bytes ==
  /\ SignReturned => Len(signature_bytes) = 132 /\ Len(signature) = 176
  /\ ( /\ Succeeded("sign")
       /\ pc = "done"
       /\ Len(structured_signature.r) <= 66
       /\ Len(structured_signature.s) <= 66 ) => SignReturned

C1_Witness ==
  /\ SignReturned
  /\ payload = <<>>
  /\ Len(structured_signature.r) = 0
  /\ Len(structured_signature.s) = 66
  /\ Len(signature_bytes) = 132

\* C2: sign_es512 called with a key that is not on P-521 fails with the
\* curve-mismatch error; no hash and no signature is ever computed on that
\* path and nothing is printed; and on every path the curve check precedes
\* the hash and the signature.
C2_CurveCheckedFirst ==
  /\ (Attempted("curve_check") /\ private_key.curve # "P521") =>
       /\ pc = "done"
       /\ result = "CurveMismatch"
  /\ result = "CurveMismatch" =>
       /\ ~Attempted("hash")
       /\ ~Attempted("sign")
       /\ hash = NoHash
       /\ structured_signature = NoSig
       /\ signature = <<>>
       /\ stdout = <<>>
  /\ \A i \in DOMAIN log :
       log[i].op \in {"hash", "sign"} =>
         \E j \in 1..(i - 1) : log[j] = [op |-> "curve_check", ok |-> TRUE]

C2_Witness ==
  /\ result = "CurveMismatch"
  /\ private_key.curve = "P256"
  /\ pc = "done"

\* C3: the compact JWS splits on '.' into exactly three parts, and the line
\* printed is A..B: A and B non-empty base64url strings, nothing between the
\* two dots.
C3_DetachedForm ==
  /\ jws # <<>> => Len(Split(jws, Dot)) = 3
  /\ stdout # <<>> =>
       /\ Len(stdout) = 1
       /\ LET p == Split(stdout[1], Dot)
          IN /\ Len(p) = 3
             /\ p[2] = <<>>
             /\ p[1] # <<>> /\ IsBase64Url(p[1])
             /\ p[3] # <<>> /\ IsBase64Url(p[3])
             /\ p[1] = Split(jws, Dot)[1]
             /\ p[3] = signature
  /\ (result = "ok" /\ caller = "main") => stdout # <<>>

C3_Witness ==
  /\ stdout # <<>>
  /\ Len(body) = MaxBodyLen
  /\ Split(jws, Dot)[2] # <<>>
  /\ Split(stdout[1], Dot)[2] = <<>>

\* C4: if r or s is longer than 66 bytes, signing fails with an
\* OversizedScalar error value (not a crash) and no signature is produced.
C4_OversizedScalarIsAnError ==
  ( /\ Attempted("pad")
    /\ \/ Len(structured_signature.r) > 66
       \/ Len(structured_signature.s) > 66 ) =>
    /\ result = "OversizedScalar"
    /\ signature = <<>>

\* The library calls of a run that prints, in the order main makes them.
Pipeline ==
  <<"read", "private_key_from_pem", "ec_key", "check_key", "to_string",
    "curve_check", "hash", "sign", "pad", "to_string", "println">>

\* C5: a failure at any stage ends the run at once with that error: the
\* failed call is the last one made, nothing was printed and no step is
\* left to take; the calls are made once each, in the pipeline's order; and
\* a line is printed only after every stage succeeded.
C5_FailureEndsTheRun ==
  /\ \A i \in DOMAIN log :
       ~log[i].ok => /\ i = Len(log)
                     /\ pc = "done"
                     /\ result \notin {"running", "ok"}
  /\ result \notin {"running", "ok"} =>
       /\ pc = "done"
       /\ stdout = <<>>
       /\ log # <<>> /\ ~log[Len(log)].ok
  /\ pc = "done" => ~ENABLED Next
  /\ Len(log) <= Len(Pipeline) /\ Ops = SubSeq(Pipeline, 1, Len(log))
  /\ stdout # <<>> =>
       /\ Ops = Pipeline
       /\ \A i \in DOMAIN log : log[i].ok
       /\ result = "ok"

C5_Witness ==
  /\ result = "HashError"
  /\ pc = "done"
  /\ stdout = <<>>
  /\ Ops = SubSeq(Pipeline, 1, 7)

\* C6: base64_encode is total; its output holds only characters of the
\* URL-safe alphabet (so none of '+', '/', '=', '.'), and is ceil(4n/3)
\* characters long for n bytes.
C6_Base64UrlNoPad ==
  /\ pc = "base64_encode" => ENABLED Base64Encode
  /\ pc = "done" =>
       /\ IsBase64Url(encoded)
       /\ \A i \in DOMAIN encoded : encoded[i] \notin {43, 47, 61, 46}
       /\ Len(encoded) = (4 * Len(payload) + 2) \div 3

C6_Witness ==
  /\ pc = "done"
  /\ Len(payload) = 2
  /\ \E i \in DOMAIN encoded : encoded[i] = 45
  /\ \E i \in DOMAIN encoded : encoded[i] = 95

\* C7: the compact JWS is signingInput . signature, where signingInput is
\* the byte string that was handed to sign_es512 and hashed: the header and
\* payload segments emitted are the ones that were signed.
C7_EmittedIsSigned ==
  jws # <<>> =>
    /\ jws = to_be_signed \o <<Dot>> \o signature
    /\ payload = to_be_signed
    /\ hash.msg = to_be_signed
    /\ structured_signature.digest.msg = to_be_signed
    /\ LET p == Split(jws, Dot)
           q == Split(to_be_signed, Dot)
       IN /\ Len(q) = 2
          /\ p[1] = q[1]
          /\ p[2] = q[2]
          /\ Base64UrlDecodable(p[2])
          /\ Base64UrlDecode(p[2]) = body

C7_Witness ==
  /\ jws # <<>>
  /\ body # <<>>
  /\ jws = to_be_signed \o <<Dot>> \o signature

\* C8: for a P-521 key and any payload, the signature sign_es512 returns,
\* decoded to its 132 bytes and read as (r, s), passes ES512 verification
\* with the same key against the same signing input (for every valid pair
\* the ECDSA primitive issues: r and s non-zero).
C8_SignatureVerifies ==
  ( /\ SignReturned
    /\ structured_signature.r # <<>>
    /\ structured_signature.s # <<>> ) =>
    ES512Verify(private_key, payload, signature)

C8_Witness ==
  /\ SignReturned
  /\ payload # <<>>
  /\ Len(structured_signature.r) = 1
  /\ Len(structured_signature.s) = 66
  /\ ES512Verify(private_key, payload, signature)

\* C9: the 132 bytes are r then s, each left-padded with zero bytes: for r
\* of m <= 66 bytes and s of n <= 66 bytes, bytes [0, 66-m) are zero, bytes
\* [66-m, 66) are r, bytes [66, 132-n) are zero and bytes [132-n, 132) are
\* s; the unsigned values of the two halves are r and s.
C9_LeftPaddedLayout ==
  SignReturned =>
    LET r == structured_signature.r
        s == structured_signature.s
        m == Len(r)
        n == Len(s)
        b == signature_bytes
    IN /\ m <= 66 /\ n <= 66
       /\ Len(b) = 132
       /\ \A i \in 1..(66 - m) : b[i] = 0
       /\ \A i \in 1..m : b[66 - m + i] = r[i]
       /\ \A i \in 1..(66 - n) : b[66 + i] = 0
       /\ \A i \in 1..n : b[132 - n + i] = s[i]
       /\ Unsigned(SubSeq(b, 1, 66)) = r
       /\ Unsigned(SubSeq(b, 67, 132)) = s

C9_Witness ==
  /\ SignReturned
  /\ Len(structured_signature.r) = 65
  /\ Len(structured_signature.s) = 1
  /\ signature_bytes[1] = 0
  /\ signature_bytes[2] = structured_signature.r[1]
  /\ signature_bytes[132] = structured_signature.s[1]

\* C10: a key is used only after it passed the consistency check: every
\* call of get_jws / sign_es512 follows a successful check_key on the key
\* the file holds, and a key that fails the check, is not PEM or is not an
\* EC key never reaches the hash or the signature.
C10_KeyCheckedBeforeUse ==
  /\ \A i \in DOMAIN log :
       log[i].op \in {"to_string", "curve_check", "hash", "sign", "pad"} =>
         /\ \E j \in 1..(i - 1) : log[j] = [op |-> "check_key", ok |-> TRUE]
         /\ private_key = [curve |-> keyfile.curve]
  /\ keyfile.kind # "valid" =>
       /\ pc \notin {"get_jws", "sign_es512", "hash", "sign", "serialize", "compose", "print"}
       /\ ~Attempted("hash")
       /\ ~Attempted("sign")
       /\ hash = NoHash
       /\ structured_signature = NoSig
       /\ stdout = <<>>

C10_Witness ==
  /\ Succeeded("check_key")
  /\ Succeeded("sign")
  /\ keyfile.kind = "valid"
====
